---- MODULE Spec2Model ----
(***************************************************************************)
(* Artwork catalog generator: the parallel OCR batch of streamlit_app.py   *)
(* (process_button handler) and the page layout of                         *)
(* services/pdf_service.py (build_ocr_pdf).                                *)
(*                                                                         *)
(* Lengths are in 1/100 mm.  Strings (file names, OCR text) are sequences  *)
(* of Unicode code points.  An optional value is a sequence of length 0    *)
(* or 1.                                                                   *)
(***************************************************************************)
EXTENDS Integers, Sequences, FiniteSets, TLC

VARIABLES
    images,       \* images_data: the uploaded ImageRecords [name, bytes]
    pc,           \* position of the script run / process_button handler
    max_workers,  \* size of the ThreadPoolExecutor (0: no pool was created)
    futures,      \* futures[i]: the Future of images[i]
    collected,    \* indexes of the futures as_completed has yielded
    ocr_results,  \* ocr_results, in the order as_completed yielded them
    error,        \* the exception that left the handler ("" when none)
    cfg,          \* arguments of build_ocr_pdf other than ocr_items
    items,        \* ocr_items_sorted
    idx,          \* loop index of build_ocr_pdf (0-based, as enumerate)
    step,         \* position inside the loop body of build_ocr_pdf
    pdf,          \* the FPDF object: its pages and its cursor y
    art,          \* locals of the artwork block of the current page
    tmp_images,   \* files of tmp_images/: page index -> content of art_<idx>.png
    pdf_bytes,    \* the returned document (<<>> before), as <<pages>>
    other         \* a second build_ocr_pdf call in the same working directory:
                  \* its items, idx, step, pdf, art and pdf_bytes

vars == <<images, pc, max_workers, futures, collected, ocr_results, error,
          cfg, items, idx, step, pdf, art, tmp_images, pdf_bytes, other>>

poolVars == <<max_workers, futures, collected, ocr_results, error>>
buildVars == <<cfg, items, idx, step, pdf, art, tmp_images, pdf_bytes>>

(***************************************************************************)
(* Bounds of the model.                                                    *)
(***************************************************************************)
MaxImages == 3
MaxItems == 2
MaxLen == 3

Min(a, b) == IF a <= b THEN a ELSE b
Mm(x) == x * 100

(***************************************************************************)
(* Strings.                                                                *)
(***************************************************************************)
RECURSIVE StrLess(_, _)
\* Python's str <: lexicographic on code points, a proper prefix first.
StrLess(a, b) ==
    IF b = <<>> THEN FALSE
    ELSE IF a = <<>> THEN TRUE
    ELSE IF Head(a) # Head(b) THEN Head(a) < Head(b)
    ELSE StrLess(Tail(a), Tail(b))

StrLeq(a, b) == a = b \/ StrLess(a, b)

RECURSIVE Count(_, _)
\* s.count(c)
Count(s, c) ==
    IF s = <<>> THEN 0
    ELSE (IF Head(s) = c THEN 1 ELSE 0) + Count(Tail(s), c)

\* str.isspace() on the code points the model uses.
IsSpace(c) == c \in {9, 10, 11, 12, 13, 28, 29, 30, 31, 32, 133, 160}

RECURSIVE LStrip(_)
LStrip(s) ==
    IF s # <<>> /\ IsSpace(Head(s)) THEN LStrip(Tail(s)) ELSE s

RECURSIVE RStrip(_)
RStrip(s) ==
    IF s # <<>> /\ IsSpace(s[Len(s)]) THEN RStrip(SubSeq(s, 1, Len(s) - 1)) ELSE s

\* str.strip()
Strip(s) == RStrip(LStrip(s))

\* str.encode("latin-1", "replace"): one byte per code point, "?" (63) for
\* a code point that has no Latin-1 byte.
Latin1Encode(s) == [i \in 1..Len(s) |-> IF s[i] <= 255 THEN s[i] ELSE 63]

\* bytes.decode("latin-1"): byte b is code point b.
Latin1Decode(b) == [i \in 1..Len(b) |-> b[i]]

\* Variant: the text is passed on as it is.
to_latin1_keep(text) == text

\* _to_latin1 of a str
to_latin1(text) == Latin1Decode(Latin1Encode(text))

\* "[No text detected]"
NoTextDetected ==
    <<91, 78, 111, 32, 116, 101, 120, 116, 32, 100, 101, 116, 101, 99, 116,
      101, 100, 93>>

\* The argument of the second multi_cell: the text, or the literal when the
\* text is falsy (empty).
ocr_text_drawn(ocr_text) ==
    to_latin1(IF ocr_text # <<>> THEN ocr_text ELSE NoTextDetected)

(***************************************************************************)
(* The uploaded files.  The bytes of a file are a short byte sequence; what *)
(* PIL and Tesseract make of them is a function of the bytes.              *)
(***************************************************************************)
PngArt == <<137, 80>>     \* RGB, 400 x 200 px, no text found
JpgPortrait == <<255, 216>>  \* RGB, 300 x 400 px, text with a non-Latin-1 character
JpgCmyk == <<255, 238>>   \* CMYK, 200 x 200 px, two lines of text; PNG cannot hold CMYK
PngTruncated == <<137, 0>>  \* a PNG header, the pixel data cut off
Broken == <<0>>           \* not an image

FileBytes == {PngArt, JpgPortrait, JpgCmyk, PngTruncated, Broken}

\* Image.open(io.BytesIO(image_bytes)) succeeds
Decodable(b) == b # <<>> /\ b # Broken

\* img.size (never (0, 0) for these files)
PixelSize(b) ==
    IF b = PngArt THEN <<400, 200>>
    ELSE IF b = JpgPortrait THEN <<300, 400>>
    ELSE <<200, 200>>

\* the pixel data load (Image.open reads the header only)
Loadable(b) == Decodable(b) /\ b # PngTruncated

\* img.save(art_path, format="PNG") succeeds
PngSavable(b) == Loadable(b) /\ b # JpgCmyk

\* pytesseract.image_to_string(image, lang=lang), when it returns
EngineText(b) ==
    IF b = PngArt THEN <<32, 10>>
    ELSE IF b = JpgPortrait THEN <<233, 8364, 10>>
    ELSE <<65, 10, 66, 10>>

NameA == <<97>>
NameM == <<109>>
NameZ == <<122>>

ImageRecords ==
    { [name |-> NameZ, bytes |-> PngArt],
      [name |-> NameA, bytes |-> JpgPortrait],
      [name |-> NameM, bytes |-> JpgCmyk],
      [name |-> NameA, bytes |-> PngArt],
      [name |-> NameZ, bytes |-> PngTruncated],
      [name |-> NameM, bytes |-> Broken] }

RECURSIVE SeqsUpTo(_, _)
SeqsUpTo(S, n) ==
    IF n = 0 THEN {<<>>}
    ELSE LET shorter == SeqsUpTo(S, n - 1)
         IN  shorter \cup {Append(s, x) : s \in {t \in shorter : Len(t) = n - 1}, x \in S}

(***************************************************************************)
(* OCR extraction: services/ocr_service.py, services/extraction_service.py *)
(***************************************************************************)
\* run_ocr: the exception it raises for these bytes ("" when it returns):
\* Image.open raises on bytes that are no image, image_to_string on an image
\* it cannot load.
run_ocr_raises(image_bytes) ==
    IF ~Decodable(image_bytes) THEN "DecodeError"
    ELSE IF ~Loadable(image_bytes) THEN "EngineError"
    ELSE ""

\* run_ocr: the value it returns
run_ocr(image_bytes) == Strip(EngineText(image_bytes))

\* Variant: every record carries the bytes of one and the same file.
extract_image_text_swapped(image_bytes, file_name) ==
    [file_name |-> file_name, ocr_text |-> run_ocr(image_bytes), image_bytes |-> PngArt]

\* extract_image_text: the dict it returns
extract_image_text(image_bytes, file_name) ==
    [file_name |-> file_name, ocr_text |-> run_ocr(image_bytes), image_bytes |-> image_bytes]

(***************************************************************************)
(* The batch: streamlit_app.py, the script run and the process_button      *)
(* handler.                                                                *)
(***************************************************************************)
\* ThreadPoolExecutor(max_workers=min(8, ...)): the cap
MaxWorkers == 8

\* A batch one more than the cap, of copies of one file: the pool is full and
\* one extraction waits in the queue.
FullBatch == [i \in 1..(MaxWorkers + 1) |-> [name |-> NameZ, bytes |-> PngArt]]

Batches == SeqsUpTo(ImageRecords, MaxImages) \cup {FullBatch}

\* Variant: the handler also runs with no upload.
UploadGuardOff(uploaded_files) == TRUE

\* "if uploaded_files:" a list is truthy when it is not empty
UploadGuard(uploaded_files) == Len(uploaded_files) > 0

\* Variant: one worker per image, without the cap.
PoolSizeUncapped(images_data) == Len(images_data)

\* max_workers=min(8, len(images_data))
PoolSize(images_data) == Min(MaxWorkers, Len(images_data))

PendingFuture == [state |-> "PENDING", worker |-> 0, runs |-> 0, result |-> <<>>, exc |-> ""]

RunningIn(fs) == {i \in DOMAIN fs : fs[i].state = "RUNNING"}
PendingIn(fs) == {i \in DOMAIN fs : fs[i].state = "PENDING"}

Running == RunningIn(futures)
Pending == PendingIn(futures)
Finished == {i \in DOMAIN futures : futures[i].state = "FINISHED"}

\* The worker threads of a pool of n that are not inside a work item: the
\* threads blocked in work_queue.get().
IdleWorkers(fs, n) == {w \in 1..n : \A i \in RunningIn(fs) : fs[i].worker # w}

RECURSIVE Dispatch(_, _)
\* _worker: while the queue holds a work item and a thread is idle, the
\* thread takes the oldest item (the queue is FIFO) and calls
\* extract_image_text.  The threads are interchangeable: the idle thread of
\* least index takes it.
Dispatch(fs, n) ==
    IF PendingIn(fs) = {} \/ IdleWorkers(fs, n) = {} THEN fs
    ELSE LET i == CHOOSE j \in PendingIn(fs) : \A k \in PendingIn(fs) : j <= k
             w == CHOOSE v \in IdleWorkers(fs, n) : \A u \in IdleWorkers(fs, n) : v <= u
         IN  Dispatch([fs EXCEPT ![i].state = "RUNNING",
                                 ![i].worker = w,
                                 ![i].runs = @ + 1], n)

\* Script run with no uploaded file: the else branch, st.info(...).
UploadHint ==
    /\ pc = "script"
    /\ ~UploadGuard(images)
    /\ pc' = "hint"
    /\ UNCHANGED <<images, other, poolVars, buildVars>>

\* process_button pressed: the pool is created, every image is submitted
\* and the worker threads take the first items.
\* ThreadPoolExecutor raises ValueError when max_workers <= 0.
ProcessButton ==
    /\ pc = "script"
    /\ UploadGuard(images)
    /\ IF PoolSize(images) <= 0
       THEN /\ error' = "ValueError"
            /\ pc' = "failed"
            /\ UNCHANGED <<max_workers, futures>>
       ELSE /\ max_workers' = PoolSize(images)
            /\ futures' = Dispatch([i \in 1..Len(images) |-> PendingFuture],
                                   PoolSize(images))
            /\ pc' = "collect"
            /\ error' = error
    /\ UNCHANGED <<images, other, collected, ocr_results, buildVars>>

\* extract_image_text returns or raises in a worker; the future is set and
\* the worker goes back to the queue.
WorkerFinish ==
    /\ pc \in {"collect", "unwind"}
    /\ \E i \in Running :
         LET e == run_ocr_raises(images[i].bytes)
             done == [futures EXCEPT
                        ![i].state = "FINISHED",
                        ![i].worker = 0,
                        ![i].exc = e,
                        ![i].result =
                           IF e = ""
                           THEN <<extract_image_text(images[i].bytes, images[i].name)>>
                           ELSE <<>>]
         IN  futures' = Dispatch(done, max_workers)
    /\ UNCHANGED <<images, other, pc, max_workers, collected, ocr_results, error, buildVars>>

\* Variant: the exception of a failed future is swallowed.
CollectSkipFailed ==
    /\ pc = "collect"
    /\ \E i \in Finished \ collected :
         /\ ocr_results' = IF futures[i].exc = ""
                           THEN Append(ocr_results, futures[i].result[1])
                           ELSE ocr_results
         /\ collected' = collected \cup {i}
    /\ UNCHANGED <<images, other, pc, max_workers, futures, error, buildVars>>

\* One turn of "for future in as_completed(futures)": a finished future not
\* yet yielded is yielded; future.result() returns the dict or raises.
Collect ==
    /\ pc = "collect"
    /\ \E i \in Finished \ collected :
         IF futures[i].exc = ""
         THEN /\ ocr_results' = Append(ocr_results, futures[i].result[1])
              /\ collected' = collected \cup {i}
              /\ UNCHANGED <<pc, error>>
         ELSE /\ error' = futures[i].exc
              /\ pc' = "unwind"
              /\ UNCHANGED <<ocr_results, collected>>
    /\ UNCHANGED <<images, other, max_workers, futures, buildVars>>

\* as_completed is exhausted; the with block ends (shutdown(wait=True) has
\* nothing to wait for).
PoolExit ==
    /\ pc = "collect"
    /\ collected = DOMAIN futures
    /\ pc' = "prepare"
    /\ UNCHANGED <<images, other, poolVars, buildVars>>

\* Variant: the exception leaves the with block without waiting for the
\* work items still running or queued.
PoolUnwindNoWait ==
    /\ pc = "unwind"
    /\ pc' = "failed"
    /\ UNCHANGED <<images, other, poolVars, buildVars>>

\* The exception leaves the with block: shutdown(wait=True) returns once
\* every submitted work item has run; then the exception leaves the handler.
PoolUnwind ==
    /\ pc = "unwind"
    /\ Finished = DOMAIN futures
    /\ pc' = "failed"
    /\ UNCHANGED <<images, other, poolVars, buildVars>>

(***************************************************************************)
(* Logo position: streamlit_app.py                                         *)
(***************************************************************************)
PositionKeys ==
    {"top-left", "top-center", "top-right",
     "bottom-left", "bottom-center", "bottom-right"}
PageFormats == {"A4", "letter"}
Orientations == {"P", "L"}

\* st.slider("Logo width (mm)", min_value=10, max_value=80, step=1)
LogoWidthMin == 10
LogoWidthMax == 80

StartsWithTop(k) == k \in {"top-left", "top-center", "top-right"}
EndsWithLeft(k) == k \in {"top-left", "bottom-left"}
EndsWithRight(k) == k \in {"top-right", "bottom-right"}

\* get_page_size_mm: (width, height) in portrait
get_page_size_mm(page_format) ==
    IF page_format = "letter" THEN <<Mm(216), Mm(279)>> ELSE <<Mm(210), Mm(297)>>

LogoMargin == 1000

\* Variant: the portrait size also in landscape.
compute_logo_position_noswap(position_key, page_format, orientation, logo_width) ==
    LET page_w == get_page_size_mm(page_format)[1]
        page_h == get_page_size_mm(page_format)[2]
        y == IF StartsWithTop(position_key) THEN LogoMargin
             ELSE page_h - logo_width - LogoMargin
        x == IF EndsWithLeft(position_key) THEN LogoMargin
             ELSE IF EndsWithRight(position_key) THEN page_w - logo_width - LogoMargin
             ELSE (page_w - logo_width) \div 2
    IN  <<x, y>>

\* compute_logo_position: (x, y) of the logo; logo_width in 1/100 mm
compute_logo_position(position_key, page_format, orientation, logo_width) ==
    LET size == get_page_size_mm(page_format)
        page_w == IF orientation = "L" THEN size[2] ELSE size[1]
        page_h == IF orientation = "L" THEN size[1] ELSE size[2]
        y == IF StartsWithTop(position_key) THEN LogoMargin
             ELSE page_h - logo_width - LogoMargin
        x == IF EndsWithLeft(position_key) THEN LogoMargin
             ELSE IF EndsWithRight(position_key) THEN page_w - logo_width - LogoMargin
             ELSE (page_w - logo_width) \div 2
    IN  <<x, y>>

\* The keyword arguments of the build_ocr_pdf call that place things.
\* logo: "none" (logo_path is None), "missing" (no such file), "corrupt"
\* (a file pdf.image raises on), "file" (a file it draws).
BuildArgs(logo, position_key, page_format, orientation, logo_width) ==
    LET xy == compute_logo_position(position_key, page_format, orientation, logo_width)
    IN  [logo |-> logo, position_key |-> position_key, logo_x |-> xy[1], logo_y |-> xy[2],
         logo_width |-> logo_width, page_format |-> page_format,
         orientation |-> orientation]

(***************************************************************************)
(* The FPDF object, as build_ocr_pdf uses it: services/pdf_service.py      *)
(***************************************************************************)
\* FPDF(orientation, unit="mm", format): (w, h) of a page
FpdfPageSize(c) ==
    LET size == IF c.page_format = "letter" THEN <<21590, 27940>> ELSE <<21000, 29700>>
    IN  IF c.orientation = "L" THEN <<size[2], size[1]>> ELSE size

\* l_margin, r_margin and t_margin of a new FPDF: 1 cm
FpdfMargin == 1000
\* set_auto_page_break(auto=True, margin=15)
AutoBreakMargin == 1500
\* multi_cell(text_width, 6, ...)
LineHeight == 600

PageBreakTrigger(c) == FpdfPageSize(c)[2] - AutoBreakMargin

NewPage(item, how) ==
    [item |-> item, started |-> how, logo |-> <<>>, notice |-> <<>>,
     image |-> <<>>, text |-> <<>>]

\* pdf.add_page(): a page for the item-th sorted result; the cursor goes to
\* the top margin.  how: "add_page" (line 85) or "auto" (page break).
add_page(p, item, how) ==
    [pages |-> Append(p.pages, NewPage(item, how)), y |-> FpdfMargin]

\* cell(): the automatic page break before a line of height LineHeight
cell_break(p, c, item) ==
    IF p.y + LineHeight > PageBreakTrigger(c) THEN add_page(p, item, "auto") ELSE p

RECURSIVE cell_lines(_, _, _, _)
\* multi_cell: n lines, each one cell
cell_lines(p, c, item, n) ==
    IF n = 0 THEN p
    ELSE LET q == cell_break(p, c, item)
         IN  cell_lines([q EXCEPT !.y = @ + LineHeight], c, item, n - 1)

\* lines of a text the page is wide enough for: one more than its newlines
NumLines(text) == 1 + Count(text, 10)

\* os.path.isfile(logo_path) with logo_path not None
use_logo(c) == c.logo \in {"corrupt", "file"}

\* top_margin
top_margin(c) == IF use_logo(c) THEN c.logo_y + c.logo_width + 200 ELSE 2000

\* text_width = pdf.w - pdf.l_margin - pdf.r_margin
text_width(c) == FpdfPageSize(c)[1] - FpdfMargin - FpdfMargin

\* artwork_w_mm = min(120.0, page_width_mm * 0.8)
artwork_w_mm(c) == Min(12000, (text_width(c) * 8) \div 10)

\* artwork_h_mm = artwork_w_mm * img_h_px / img_w_px
artwork_h_mm(c, size) == (artwork_w_mm(c) * size[2]) \div size[1]

\* Variant: centred in the text width, not in the page width.
image_x_in_text_width(c) == (text_width(c) - artwork_w_mm(c)) \div 2

\* image_x = (pdf.w - artwork_w_mm) / 2.0
image_x(c) == (FpdfPageSize(c)[1] - artwork_w_mm(c)) \div 2

\* Variant: the items in the order given.
sorted_unsorted(ocr_items) == ocr_items

RECURSIVE sorted_insert(_, _)
\* x goes behind every element whose key is not greater (stable).
sorted_insert(s, x) ==
    IF s = <<>> THEN <<x>>
    ELSE IF StrLess(x.file_name, Head(s).file_name) THEN <<x>> \o s
    ELSE <<Head(s)>> \o sorted_insert(Tail(s), x)

RECURSIVE sorted_from(_, _)
sorted_from(acc, rest) ==
    IF rest = <<>> THEN acc
    ELSE sorted_from(sorted_insert(acc, Head(rest)), Tail(rest))

\* sorted(ocr_items, key=lambda x: str(x.get("file_name", ""))): stable
sorted_by_file_name(ocr_items) == sorted_from(<<>>, ocr_items)

(***************************************************************************)
(* build_ocr_pdf, one action per block of the loop body.                   *)
(***************************************************************************)
NoArt == [current_y |-> 0, text_start_y |-> 0, w |-> 0, h |-> 0, x |-> 0]

LastPage(p) == Len(p.pages)

\* The demo notice: set_xy(l_margin, top_margin), multi_cell (one line), ln(2).
\* The notice is on the page its line is drawn on.
DrawNotice(p, c, item) ==
    LET at == [p EXCEPT !.y = top_margin(c)]
        first == cell_break(at, c, item)
        after == cell_lines(at, c, item, 1)
    IN  [after EXCEPT !.pages[LastPage(first)].notice = <<first.y>>,
                      !.y = @ + 200]

\* The OCR text: set_xy(l_margin, text_start_y), multi_cell.
DrawOcrText(p, c, item, y, text) ==
    LET at == [p EXCEPT !.y = y]
        first == cell_break(at, c, item)
        after == cell_lines(at, c, item, NumLines(text))
    IN  [after EXCEPT !.pages[LastPage(first)].text = <<[y |-> first.y, s |-> text]>>]

\* Lines 64-78: the FPDF object, use_logo, the sort, tmp_images/.
BuildEnter ==
    /\ pc = "call"
    /\ pc' = "build"
    /\ items' = sorted_by_file_name(ocr_results)
    /\ pdf' = [pages |-> <<>>, y |-> 0]
    /\ idx' = 0
    /\ step' = IF ocr_results = <<>> THEN "output" ELSE "page"
    /\ UNCHANGED <<images, other, poolVars, cfg, art, tmp_images, pdf_bytes>>

\* Lines 81-112: add_page, the logo (a failure is printed and skipped),
\* top_margin, the demo notice, current_y.
PageStart ==
    /\ pc = "build"
    /\ step = "page"
    /\ LET item == idx + 1
           started == add_page(pdf, item, "add_page")
           logoed == IF use_logo(cfg) /\ cfg.logo = "file"
                     THEN [started EXCEPT !.pages[LastPage(started)].logo =
                             <<[x |-> cfg.logo_x, y |-> cfg.logo_y, w |-> cfg.logo_width]>>]
                     ELSE started
           noticed == DrawNotice(logoed, cfg, item)
       IN  /\ pdf' = noticed
           /\ art' = [NoArt EXCEPT !.current_y = noticed.y, !.text_start_y = noticed.y]
    /\ step' = "art"
    /\ UNCHANGED <<images, other, pc, poolVars, cfg, items, idx, tmp_images, pdf_bytes>>

\* Lines 117-132: Image.open, the size of the artwork, img.save to
\* tmp_images/art_<idx>.png.  An exception goes to the except block.
ArtSave ==
    /\ pc = "build"
    /\ step = "art"
    /\ LET b == items[idx + 1].image_bytes
       IN  IF b = <<>>
           THEN /\ step' = "text"
                /\ UNCHANGED <<art, tmp_images>>
           ELSE IF ~PngSavable(b)
           THEN /\ step' = "text"
                /\ art' = [art EXCEPT !.text_start_y = art.current_y]
                /\ UNCHANGED tmp_images
           ELSE /\ step' = "place"
                /\ art' = [art EXCEPT !.w = artwork_w_mm(cfg),
                                      !.h = artwork_h_mm(cfg, PixelSize(b)),
                                      !.x = image_x(cfg)]
                /\ tmp_images' = (idx :> b) @@ tmp_images
    /\ UNCHANGED <<images, other, pc, poolVars, cfg, items, idx, pdf, pdf_bytes>>

\* Lines 135-139: pdf.image(art_path, ...) reads the file and draws it on the
\* current page; text_start_y.
ArtPlace ==
    /\ pc = "build"
    /\ step = "place"
    /\ pdf' = [pdf EXCEPT !.pages[LastPage(pdf)].image =
                 <<[x |-> art.x, y |-> art.current_y, w |-> art.w, h |-> art.h,
                    content |-> tmp_images[idx]]>>]
    /\ art' = [art EXCEPT !.text_start_y = art.current_y + art.h + 400]
    /\ step' = "text"
    /\ UNCHANGED <<images, other, pc, poolVars, cfg, items, idx, tmp_images, pdf_bytes>>

\* Lines 146-154: the OCR text; then the next turn of the loop.
DrawText ==
    /\ pc = "build"
    /\ step = "text"
    /\ pdf' = DrawOcrText(pdf, cfg, idx + 1, art.text_start_y,
                          ocr_text_drawn(items[idx + 1].ocr_text))
    /\ idx' = idx + 1
    /\ step' = IF idx + 1 < Len(items) THEN "page" ELSE "output"
    /\ UNCHANGED <<images, other, pc, poolVars, cfg, items, art, tmp_images, pdf_bytes>>

\* Lines 157-163: pdf.output; in the app, st.success and the download button.
BuildReturn ==
    /\ pc = "build"
    /\ step = "output"
    /\ pdf_bytes' = <<pdf.pages>>
    /\ pc' = "done"
    /\ step' = "returned"
    /\ UNCHANGED <<images, other, poolVars, cfg, items, idx, pdf, art, tmp_images>>

(***************************************************************************)
(* The handler after the batch: lines 441-452.                             *)
(***************************************************************************)
\* logo_pil_image is None, or save_logo_temp wrote it (FPDF may still fail
\* to draw the file).
AppLogos == {"none", "file"}
AppLogoWidths == {Mm(25)}
AppPositionKeys == {"top-left", "bottom-center"}
AppPageFormats == {"A4"}

\* The sidebar settings of the run, save_logo_temp and compute_logo_position.
PrepareLogo ==
    /\ pc = "prepare"
    /\ \E logo \in AppLogos, k \in AppPositionKeys, f \in AppPageFormats,
          o \in Orientations, w \in AppLogoWidths :
         cfg' = BuildArgs(logo, k, f, o, w)
    /\ pc' = "call"
    /\ UNCHANGED <<images, other, poolVars, items, idx, step, pdf, art, tmp_images, pdf_bytes>>

NoCfg == BuildArgs("none", "top-left", "A4", "P", Mm(25))

\* No second build is running.
NoOther == [ocr_items |-> <<>>, items |-> <<>>, idx |-> 0, step |-> "none",
            pdf |-> [pages |-> <<>>, y |-> 0], art |-> NoArt, pdf_bytes |-> <<>>]

Init ==
    /\ images \in Batches
    /\ pc = "script"
    /\ max_workers = 0
    /\ futures = <<>>
    /\ collected = {}
    /\ ocr_results = <<>>
    /\ error = ""
    /\ cfg = NoCfg
    /\ items = <<>>
    /\ idx = 0
    /\ step = "none"
    /\ pdf = [pages |-> <<>>, y |-> 0]
    /\ art = NoArt
    /\ tmp_images = <<>>
    /\ pdf_bytes = <<>>
    /\ other = NoOther

Build == BuildEnter \/ PageStart \/ ArtSave \/ ArtPlace \/ DrawText \/ BuildReturn

Next ==
    \/ UploadHint
    \/ ProcessButton
    \/ WorkerFinish
    \/ Collect
    \/ PoolExit
    \/ PoolUnwind
    \/ PrepareLogo
    \/ Build

Spec == Init /\ [][Next]_vars

(***************************************************************************)
(* build_ocr_pdf on its own: any non-empty list of results, in any order,  *)
(* and any placement the function accepts.                                 *)
(***************************************************************************)
LayoutResults ==
    {extract_image_text(r.bytes, r.name) : r \in {q \in ImageRecords : Loadable(q.bytes)}}
    \cup {[file_name |-> NameM, ocr_text |-> <<>>, image_bytes |-> Broken]}

LayoutLogos == {"none", "missing", "corrupt", "file"}
LayoutLogoWidths == {Mm(LogoWidthMin), Mm(25), Mm(LogoWidthMax)}

LayoutConfigs ==
    {BuildArgs(logo, k, f, o, w) :
        logo \in LayoutLogos, k \in PositionKeys, f \in PageFormats,
        o \in Orientations, w \in LayoutLogoWidths}

InitCall(results, c) ==
    /\ images = <<>>
    /\ pc = "call"
    /\ max_workers = 0
    /\ futures = <<>>
    /\ collected = {}
    /\ ocr_results = results
    /\ error = ""
    /\ cfg = c
    /\ items = <<>>
    /\ idx = 0
    /\ step = "none"
    /\ pdf = [pages |-> <<>>, y |-> 0]
    /\ art = NoArt
    /\ tmp_images = <<>>
    /\ pdf_bytes = <<>>
    /\ other = NoOther

InitLayout ==
    \E results \in SeqsUpTo(LayoutResults, MaxItems) \ {<<>>}, c \in LayoutConfigs :
        InitCall(results, c)

SpecLayout == InitLayout /\ [][Build]_vars

(***************************************************************************)
(* build_ocr_pdf on one result, over the OCR texts up to MaxLen.           *)
(***************************************************************************)
\* newline, "?", "A", e acute, y diaeresis (255), A macron (256), the euro
\* sign, an emoji outside the BMP
TextAlphabet == {10, 63, 65, 233, 255, 256, 8364, 128512}

Texts == {t \in SeqsUpTo(TextAlphabet, MaxLen) : Strip(t) = t}

InitText ==
    \E t \in Texts :
        InitCall(<<[file_name |-> NameA, ocr_text |-> t, image_bytes |-> PngArt]>>, NoCfg)

SpecText == InitText /\ [][Build]_vars

(***************************************************************************)
(* Two sessions of the app generate at the same time: Streamlit runs each  *)
(* session's script in a thread of one server process, so both calls of    *)
(* build_ocr_pdf use the same working directory and the same               *)
(* tmp_images/art_<idx>.png.  The second call is the same code on the      *)
(* fields of other, with the default settings.                             *)
(***************************************************************************)
OtherBuildEnter ==
    /\ other.step = "call"
    /\ other' = [other EXCEPT
                   !.items = sorted_by_file_name(other.ocr_items),
                   !.pdf = [pages |-> <<>>, y |-> 0],
                   !.idx = 0,
                   !.step = IF other.ocr_items = <<>> THEN "output" ELSE "page"]
    /\ UNCHANGED <<images, pc, poolVars, buildVars>>

OtherPageStart ==
    /\ other.step = "page"
    /\ LET item == other.idx + 1
           started == add_page(other.pdf, item, "add_page")
           noticed == DrawNotice(started, NoCfg, item)
       IN  other' = [other EXCEPT
                       !.pdf = noticed,
                       !.art = [NoArt EXCEPT !.current_y = noticed.y,
                                             !.text_start_y = noticed.y],
                       !.step = "art"]
    /\ UNCHANGED <<images, pc, poolVars, buildVars>>

OtherArtSave ==
    /\ other.step = "art"
    /\ LET b == other.items[other.idx + 1].image_bytes
       IN  IF b = <<>>
           THEN /\ other' = [other EXCEPT !.step = "text"]
                /\ UNCHANGED tmp_images
           ELSE IF ~PngSavable(b)
           THEN /\ other' = [other EXCEPT !.step = "text",
                                          !.art.text_start_y = other.art.current_y]
                /\ UNCHANGED tmp_images
           ELSE /\ other' = [other EXCEPT
                               !.step = "place",
                               !.art.w = artwork_w_mm(NoCfg),
                               !.art.h = artwork_h_mm(NoCfg, PixelSize(b)),
                               !.art.x = image_x(NoCfg)]
                /\ tmp_images' = (other.idx :> b) @@ tmp_images
    /\ UNCHANGED <<images, pc, poolVars, cfg, items, idx, step, pdf, art, pdf_bytes>>

OtherArtPlace ==
    /\ other.step = "place"
    /\ other' = [other EXCEPT
                   !.pdf.pages[LastPage(other.pdf)].image =
                       <<[x |-> other.art.x, y |-> other.art.current_y,
                          w |-> other.art.w, h |-> other.art.h,
                          content |-> tmp_images[other.idx]]>>,
                   !.art.text_start_y = other.art.current_y + other.art.h + 400,
                   !.step = "text"]
    /\ UNCHANGED <<images, pc, poolVars, buildVars>>

OtherDrawText ==
    /\ other.step = "text"
    /\ other' = [other EXCEPT
                   !.pdf = DrawOcrText(other.pdf, NoCfg, other.idx + 1,
                                       other.art.text_start_y,
                                       ocr_text_drawn(other.items[other.idx + 1].ocr_text)),
                   !.idx = other.idx + 1,
                   !.step = IF other.idx + 1 < Len(other.items) THEN "page" ELSE "output"]
    /\ UNCHANGED <<images, pc, poolVars, buildVars>>

OtherBuildReturn ==
    /\ other.step = "output"
    /\ other' = [other EXCEPT !.pdf_bytes = <<other.pdf.pages>>, !.step = "returned"]
    /\ UNCHANGED <<images, pc, poolVars, buildVars>>

OtherBuild ==
    \/ OtherBuildEnter \/ OtherPageStart \/ OtherArtSave
    \/ OtherArtPlace \/ OtherDrawText \/ OtherBuildReturn

\* The results of the two sessions: successful extractions of three uploads.
SessionResults ==
    {extract_image_text(r.bytes, r.name) :
        r \in {[name |-> NameZ, bytes |-> PngArt],
               [name |-> NameA, bytes |-> JpgPortrait],
               [name |-> NameM, bytes |-> JpgCmyk]}}

InitSessions ==
    /\ images = <<>>
    /\ pc = "call"
    /\ max_workers = 0
    /\ futures = <<>>
    /\ collected = {}
    /\ ocr_results \in SeqsUpTo(SessionResults, MaxItems) \ {<<>>}
    /\ error = ""
    /\ cfg = NoCfg
    /\ items = <<>>
    /\ idx = 0
    /\ step = "none"
    /\ pdf = [pages |-> <<>>, y |-> 0]
    /\ art = NoArt
    /\ tmp_images = <<>>
    /\ pdf_bytes = <<>>
    /\ \E results \in SeqsUpTo(SessionResults, MaxItems) \ {<<>>} :
          other = [NoOther EXCEPT !.ocr_items = results, !.step = "call"]

SpecSessions == InitSessions /\ [][Build \/ OtherBuild]_vars

(***************************************************************************)
(* compute_logo_position on its own, over every sidebar setting.           *)
(***************************************************************************)
LogoWidths == {Mm(w) : w \in LogoWidthMin..LogoWidthMax}

InitLogo ==
    \E k \in PositionKeys, f \in PageFormats, o \in Orientations, w \in LogoWidths :
        /\ InitCall(<<>>, [NoCfg EXCEPT !.position_key = k, !.page_format = f,
                                        !.orientation = o, !.logo_width = w,
                                        !.logo_x = 0, !.logo_y = 0])

\* logo_x, logo_y = compute_logo_position(...)
ComputeLogo ==
    /\ pc = "call"
    /\ cfg' = BuildArgs(cfg.logo, cfg.position_key, cfg.page_format,
                        cfg.orientation, cfg.logo_width)
    /\ pc' = "positioned"
    /\ UNCHANGED <<images, other, poolVars, items, idx, step, pdf, art, tmp_images, pdf_bytes>>

SpecLogo == InitLogo /\ [][ComputeLogo]_vars

(***************************************************************************)
(* Properties.                                                             *)
(***************************************************************************)
Ascending(names) ==
    \A i \in 1..(Len(names) - 1) : StrLeq(names[i], names[i + 1])

ImageNames == [i \in 1..Len(images) |-> images[i].name]
ResultNames == [i \in 1..Len(ocr_results) |-> ocr_results[i].file_name]

\* The document returned, and the file name of the result each page is for.
Document == pdf_bytes[1]
PageNames == [k \in 1..Len(Document) |-> items[Document[k].item].file_name]

\* C1: whatever the order in which the extractions complete, the pages of
\* the returned document are in ascending order of their results' file
\* names, and every result's name has a page.
C1_PagesAscendingByName ==
    pc = "done" =>
        /\ Ascending(PageNames)
        /\ \A n \in {ResultNames[i] : i \in DOMAIN ResultNames} :
              \E k \in DOMAIN PageNames : PageNames[k] = n
        /\ \A i \in DOMAIN items :
              Count(items, items[i]) = Count(ocr_results, items[i])

\* A finished document of three images whose page order is neither the
\* submission order nor the completion order.
C1_Witness ==
    /\ pc = "done"
    /\ Len(images) = 3
    /\ ~Ascending(ImageNames)
    /\ ~Ascending(ResultNames)
    /\ ResultNames # ImageNames

\* C2: the returned document has as many pages as there are results.
C2_OnePagePerResult ==
    pc = "done" => Len(Document) = Len(ocr_results)

\* C3: once an extraction of the batch has raised, the handler never gets
\* past the batch: build_ocr_pdf is not entered, no page is drawn and no
\* document is returned; the handler ends with the error of a failed
\* extraction; only results of extractions that returned are collected.
C3_FailFast ==
    /\ (\E i \in DOMAIN futures : futures[i].exc # "") =>
          /\ pc \in {"collect", "unwind", "failed"}
          /\ step = "none"
          /\ items = <<>>
          /\ pdf.pages = <<>>
          /\ pdf_bytes = <<>>
    /\ pc \in {"unwind", "failed"} =>
          /\ error # ""
          /\ \E i \in DOMAIN futures : futures[i].exc = error
    /\ \A i \in collected : futures[i].exc = ""

\* The handler has failed after it had collected results of the batch.
C3_Witness ==
    /\ pc = "failed"
    /\ Len(images) = 3
    /\ Len(ocr_results) = 2
    /\ error = "EngineError"

BatchSucceeded == pc \in {"prepare", "call", "build", "done"}

\* C4: no image is extracted twice; when the batch has succeeded every image
\* was extracted once and ocr_results holds, for every (name, bytes), as
\* many records as images_data does, as many records as images in all, and
\* every record is the one its future returned.
C4_ExactlyOnce ==
    /\ \A i \in DOMAIN futures : futures[i].runs <= 1
    /\ BatchSucceeded =>
          /\ \A i \in DOMAIN futures : futures[i].runs = 1
          /\ Len(futures) = Len(images)
          /\ Len(ocr_results) = Len(images)
          /\ \A i \in DOMAIN images :
                Cardinality({j \in DOMAIN ocr_results :
                               /\ ocr_results[j].file_name = images[i].name
                               /\ ocr_results[j].image_bytes = images[i].bytes})
                = Cardinality({j \in DOMAIN images :
                               /\ images[j].name = images[i].name
                               /\ images[j].bytes = images[i].bytes})

\* A batch of three that succeeded, collected in another order than
\* submitted.
C4_Witness ==
    /\ pc = "prepare"
    /\ Len(images) = 3
    /\ ResultNames # ImageNames
    /\ \E i, j \in DOMAIN images : images[i].bytes # images[j].bytes

\* C5: at most min(8, n) extractions run at a time, on different workers of
\* a pool of min(8, n); once the handler runs every image has its future.
C5_PoolBound ==
    /\ Cardinality(Running) <= Min(8, Len(images))
    /\ \A i \in Running : futures[i].worker \in 1..Min(8, Len(images))
    /\ \A i, j \in Running : i # j => futures[i].worker # futures[j].worker
    /\ pc \in {"collect", "unwind"} => Len(futures) = Len(images)
    /\ pc \in {"collect", "unwind"} => max_workers = Min(8, Len(images))

\* Nine images: eight extractions run and the ninth waits.
C5_Witness ==
    /\ Len(images) = 9
    /\ Cardinality(Running) = 8
    /\ Pending = {9}

\* C6: with no image uploaded no pool is created, no future exists, nothing
\* is raised, no result is collected, and no page or document is produced.
C6_EmptyBatch ==
    images = <<>> =>
        /\ pc \in {"script", "hint"}
        /\ max_workers = 0
        /\ futures = <<>>
        /\ error = ""
        /\ ocr_results = <<>>
        /\ pdf.pages = <<>>
        /\ pdf_bytes = <<>>

\* The script has run with no image uploaded.
C6_Witness ==
    /\ images = <<>>
    /\ pc = "hint"

\* An asset of the build failed: the logo file is missing or cannot be
\* drawn, or the artwork of a result cannot be decoded or saved.
LogoFailed == cfg.logo \in {"missing", "corrupt"}
ArtFailed(r) == r.image_bytes # <<>> /\ ~PngSavable(r.image_bytes)

\* C7: when an asset failed the document still has one page per result, and
\* every page carries the notice and the text; a page lacks its image only
\* when its own artwork failed.
C7_AssetFailureKeepsPages ==
    (pc = "done" /\ (LogoFailed \/ \E i \in DOMAIN items : ArtFailed(items[i]))) =>
        /\ Len(Document) = Len(items)
        /\ \A k \in DOMAIN Document :
              /\ Document[k].notice # <<>>
              /\ Document[k].text # <<>>
              /\ Document[k].logo = <<>> => cfg.logo # "file"
              /\ Document[k].image = <<>> => ArtFailed(items[Document[k].item])

\* C8: the text drawn for a result is the literal when its text is empty;
\* otherwise it has the length of the text, "?" where the text has a code
\* point above 255 and the text's own character elsewhere.  Substituting
\* again changes nothing, and every result has its text drawn.
C8_TextDrawn ==
    /\ \A k \in DOMAIN pdf.pages :
          pdf.pages[k].text # <<>> =>
             LET t == items[pdf.pages[k].item].ocr_text
                 d == pdf.pages[k].text[1].s
             IN  /\ t = <<>> => d = NoTextDetected
                 /\ t # <<>> =>
                       /\ Len(d) = Len(t)
                       /\ \A i \in 1..Len(t) :
                             d[i] = (IF t[i] \in 0..255 THEN t[i] ELSE 63)
                 /\ to_latin1(d) = d
    /\ pc = "done" =>
          \A i \in DOMAIN items :
             \E k \in DOMAIN pdf.pages :
                pdf.pages[k].item = i /\ pdf.pages[k].text # <<>>

\* A text of three characters, one of them outside Latin-1, has been drawn.
C8_Witness ==
    /\ pc = "done"
    /\ Len(items) = 1
    /\ Len(items[1].ocr_text) = 3
    /\ \E i \in 1..3 : items[1].ocr_text[i] > 255
    /\ \E i \in 1..3 : items[1].ocr_text[i] \in 128..255
    /\ pdf.pages[1].text # <<>>

\* C9: a drawn artwork is min(120 mm, 80% of the text width) wide, its
\* height is width * ph / pw (to 1/100 mm; 60 mm for 400 x 200 at 120 mm),
\* and its gap to the left end of the text area equals its gap to the right
\* end: (text width - width) / 2.
C9_ArtworkPlacement ==
    \A k \in DOMAIN pdf.pages :
        pdf.pages[k].image # <<>> =>
           LET im == pdf.pages[k].image[1]
               px == PixelSize(im.content)
               page_w == FpdfPageSize(cfg)[1]
               W == page_w - 2000
               left == im.x - 1000
               right == (page_w - 1000) - (im.x + im.w)
           IN  /\ 10 * im.w = Min(120000, 8 * W)
               /\ im.h * px[1] <= im.w * px[2]
               /\ im.w * px[2] < (im.h + 1) * px[1]
               /\ (px = <<400, 200>> /\ im.w = 12000) => im.h = 6000
               /\ left = right
               /\ 2 * left = W - im.w
               /\ im.content = items[pdf.pages[k].item].image_bytes

\* A 400 x 200 artwork drawn on a landscape Letter page.
C9_Witness ==
    /\ pc = "done"
    /\ cfg.page_format = "letter"
    /\ cfg.orientation = "L"
    /\ \E k \in DOMAIN pdf.pages :
          /\ pdf.pages[k].image # <<>>
          /\ PixelSize(pdf.pages[k].image[1].content) = <<400, 200>>

\* C10: the logo is 10 mm from the edges its preset names (centred for a
\* center preset) of the page, A4 210 x 297 or Letter 216 x 279, width and
\* height swapped in landscape; its square box is at least 10 mm inside the
\* page on every side.
C10_LogoPosition ==
    pc = "positioned" =>
        LET portrait == IF cfg.page_format = "A4" THEN <<21000, 29700>>
                        ELSE <<21600, 27900>>
            page_w == IF cfg.orientation = "L" THEN portrait[2] ELSE portrait[1]
            page_h == IF cfg.orientation = "L" THEN portrait[1] ELSE portrait[2]
            k == cfg.position_key
            x == cfg.logo_x
            y == cfg.logo_y
            w == cfg.logo_width
        IN  /\ k \in {"top-left", "top-center", "top-right"} => y = 1000
            /\ k \in {"bottom-left", "bottom-center", "bottom-right"} =>
                  y + w = page_h - 1000
            /\ k \in {"top-left", "bottom-left"} => x = 1000
            /\ k \in {"top-right", "bottom-right"} => x + w = page_w - 1000
            /\ k \in {"top-center", "bottom-center"} => x + x + w = page_w
            /\ x >= 1000
            /\ y >= 1000
            /\ x + w <= page_w - 1000
            /\ y + w <= page_h - 1000

\* The widest logo, bottom right on a landscape Letter page.
C10_Witness ==
    /\ pc = "positioned"
    /\ cfg.position_key = "bottom-right"
    /\ cfg.page_format = "letter"
    /\ cfg.orientation = "L"
    /\ cfg.logo_width = 8000

(***************************************************************************)
(* build_ocr_pdf as a function of its arguments: the loop body in one      *)
(* piece, for comparing the documents of two calls.                        *)
(***************************************************************************)
\* One turn of the loop (lines 80-154) for the item-th sorted result r.
draw_item(p, c, item, r) ==
    LET started == add_page(p, item, "add_page")
        logoed == IF use_logo(c) /\ c.logo = "file"
                  THEN [started EXCEPT !.pages[LastPage(started)].logo =
                          <<[x |-> c.logo_x, y |-> c.logo_y, w |-> c.logo_width]>>]
                  ELSE started
        noticed == DrawNotice(logoed, c, item)
        b == r.image_bytes
        drawn == b # <<>> /\ PngSavable(b)
        h == artwork_h_mm(c, PixelSize(b))
        placed == IF drawn
                  THEN [noticed EXCEPT !.pages[LastPage(noticed)].image =
                          <<[x |-> image_x(c), y |-> noticed.y, w |-> artwork_w_mm(c),
                             h |-> h, content |-> b]>>]
                  ELSE noticed
        text_start_y == IF drawn THEN noticed.y + h + 400 ELSE noticed.y
    IN  DrawOcrText(placed, c, item, text_start_y, ocr_text_drawn(r.ocr_text))

RECURSIVE draw_items(_, _, _, _)
\* for idx, item in enumerate(ocr_items_sorted), from the k-th on
draw_items(p, c, sorted, k) ==
    IF k > Len(sorted) THEN p
    ELSE draw_items(draw_item(p, c, k, sorted[k]), c, sorted, k + 1)

\* The pages of build_ocr_pdf(ocr_items, ...) when no other build shares
\* tmp_images/.
build_document(ocr_items, c) ==
    draw_items([pages |-> <<>>, y |-> 0], c, sorted_by_file_name(ocr_items), 1).pages

\* The step-by-step build returns what build_document computes.
BuildAgrees == pc = "done" => Document = build_document(ocr_results, cfg)

RemoveFirst(s, v) ==
    LET i == CHOOSE j \in DOMAIN s : s[j] = v /\ \A k \in 1..(j - 1) : s[k] # v
    IN  SubSeq(s, 1, i - 1) \o SubSeq(s, i + 1, Len(s))

RECURSIVE Arrangements(_)
\* The orders in which the records of s can be collected.
Arrangements(s) ==
    IF s = <<>> THEN {<<>>}
    ELSE UNION {{<<v>> \o t : t \in Arrangements(RemoveFirst(s, v))} :
                 v \in {s[i] : i \in DOMAIN s}}

\* C11: the returned document is the document of the same results collected
\* in any other order, under the same settings: the pages do not depend on
\* the completion order, also when results share a file name.
C11_DocumentOfResultSet ==
    pc = "done" =>
        \A reordered \in Arrangements(ocr_results) :
            build_document(reordered, cfg) = Document

PastExtraction == pc \in {"prepare", "call", "build", "done", "failed"}
InLayout == pc \in {"build", "done"}

\* The results whose turn of the loop has begun.
ItemsBegun == IF step \in {"art", "place", "text"} THEN idx + 1 ELSE idx

\* C12: once control has left the extraction stage (towards layout or with
\* the batch failure) no extraction is running or queued; layout is entered
\* only with every extraction finished without error and collected; layout
\* draws the pages one result after another in sorted order.
C12_NoExtractionLeftBehind ==
    /\ PastExtraction => Running = {} /\ Pending = {}
    /\ pc \in {"prepare", "call", "build", "done"} =>
          /\ \A i \in DOMAIN futures :
                futures[i].state = "FINISHED" /\ futures[i].exc = ""
          /\ collected = DOMAIN futures
          /\ Len(ocr_results) = Len(images)
          /\ error = ""
    /\ InLayout =>
          /\ Ascending([k \in DOMAIN items |-> items[k].file_name])
          /\ \A k \in DOMAIN pdf.pages :
                /\ pdf.pages[k].item \in 1..ItemsBegun
                /\ k > 1 => pdf.pages[k - 1].item \in
                               {pdf.pages[k].item - 1, pdf.pages[k].item}
          /\ \A j \in 1..ItemsBegun : \E k \in DOMAIN pdf.pages : pdf.pages[k].item = j

\* The failure has reached the caller of a batch of three in which an
\* extraction that succeeded was never collected.
C12_Witness ==
    /\ pc = "failed"
    /\ Len(images) = 3
    /\ \E i \in DOMAIN futures :
          /\ i \notin collected
          /\ futures[i].state = "FINISHED"
          /\ futures[i].exc = ""

\* The pages of a build that show an artwork show the image of their own
\* result.
OwnArtwork(pages, sorted) ==
    \A k \in DOMAIN pages :
        pages[k].image # <<>> =>
            pages[k].image[1].content = sorted[pages[k].item].image_bytes

\* C13: each page embeds the artwork of its own result: the file
\* tmp_images/art_<idx>.png that pdf.image is about to read still holds what
\* this page wrote, whether the build runs alone or next to a second build
\* in the same working directory.
C13_OwnArtworkEmbedded ==
    /\ step = "place" => tmp_images[idx] = items[idx + 1].image_bytes
    /\ other.step = "place" =>
          tmp_images[other.idx] = other.items[other.idx + 1].image_bytes
    /\ OwnArtwork(pdf.pages, items)
    /\ OwnArtwork(other.pdf.pages, other.items)

\* C14: in the returned document the page started for a result carries the
\* demo notice at top_margin, and no page added by a page break carries one;
\* on a page with the logo, the notice, the image and the text of the result
\* are on that page, below the logo.
C14_NoticeAtTopMargin ==
    pc = "done" =>
        \A k \in DOMAIN Document :
            LET page == Document[k]
            IN  /\ page.started = "add_page" => page.notice = <<top_margin(cfg)>>
                /\ page.started = "auto" => page.notice = <<>>
                /\ page.logo # <<>> =>
                      LET below == page.logo[1].y + page.logo[1].w
                      IN  /\ page.notice # <<>> /\ page.notice[1] >= below
                          /\ page.text # <<>> /\ page.text[1].y >= below
                          /\ ~ArtFailed(items[page.item]) =>
                                page.image # <<>> /\ page.image[1].y >= below

====
